---- MODULE Spec2Model ----
(***************************************************************************)
(* A model of the DoH edge resolver of yongchengchen/doh.                  *)
(*                                                                         *)
(* The repository holds two builds of the worker: src/index.js and         *)
(* src/unnamed/part_000.  They differ only in buildWireFormatResponse (and *)
(* in two console.log lines); the variable `build` says which one runs.    *)
(*                                                                         *)
(* Conventions.  A JavaScript string is a sequence of character codes      *)
(* ("a." is <<97, 46>>); a byte buffer is a sequence of bytes 0..255, the  *)
(* byte at JavaScript offset o being element o + 1.  HTTP methods, media   *)
(* types, URL paths and parameter keys are only compared, and are TLA+     *)
(* strings.                                                                *)
(***************************************************************************)
EXTENDS Integers, Sequences, FiniteSets, TLC

(***************************************************************************)
(* Program constants                                                       *)
(***************************************************************************)
CACHE_TTL_MS == 10 * 60 * 1000

contype == "application/dns-message"

jstontype == "application/dns-json"

doh == "https://security.cloudflare-dns.com/dns-query"

dohjson == "https://security.cloudflare-dns.com/dns-query"

REMOTE_DNS_URL == "https://raw.githubusercontent.com/yongchengchen/doh/refs/heads/main/localDNS.json"

\* const path = '' : the base path prefix (every pathname starts with it)
path == ""

\* JavaScript's null, as the cache variable holds it (table versions are 1, 2, ...)
null == 0

\* The value of a failed numeric conversion (undefined + number, parseInt of no digits)
NaN == -1

(***************************************************************************)
(* JavaScript string and array primitives                                  *)
(***************************************************************************)
Min(a, b) == IF a < b THEN a ELSE b

\* s.endsWith(c) for a one-character c
endsWith(s, c) == Len(s) > 0 /\ s[Len(s)] = c

\* s.split(c) for a one-character separator: always at least one piece
RECURSIVE split(_, _)
split(s, c) ==
    IF \A i \in 1..Len(s) : s[i] # c
    THEN <<s>>
    ELSE LET i == CHOOSE k \in 1..Len(s) :
                      s[k] = c /\ \A j \in 1..(k - 1) : s[j] # c
         IN  <<SubSeq(s, 1, i - 1)>> \o split(SubSeq(s, i + 1, Len(s)), c)

\* parts.join(c)
RECURSIVE join(_, _)
join(parts, c) ==
    IF Len(parts) = 0 THEN <<>>
    ELSE IF Len(parts) = 1 THEN parts[1]
    ELSE parts[1] \o <<c>> \o join(Tail(parts), c)

\* buf.slice(start, end) of an ArrayBuffer: both ends are clamped to the length
slice(buf, start, end) ==
    SubSeq(buf, Min(start, Len(buf)) + 1, Min(end, Len(buf)))

\* new TextDecoder().decode(bytes): UTF-8.  An ASCII byte is its character; a
\* byte that starts no valid sequence becomes U+FFFD.  (The byte alphabets of
\* the model hold no valid multi-byte sequence.)
RECURSIVE TextDecode(_)
TextDecode(bytes) ==
    IF Len(bytes) = 0 THEN <<>>
    ELSE <<IF bytes[1] < 128 THEN bytes[1] ELSE 65533>> \o TextDecode(Tail(bytes))

\* new TextEncoder().encode(str): UTF-8 of the characters of the basic plane
RECURSIVE TextEncode(_)
TextEncode(str) ==
    IF Len(str) = 0 THEN <<>>
    ELSE LET c == str[1]
             b == IF c < 128 THEN <<c>>
                  ELSE IF c < 2048 THEN <<192 + (c \div 64), 128 + (c % 64)>>
                  ELSE <<224 + (c \div 4096), 128 + ((c \div 64) % 64), 128 + (c % 64)>>
         IN  b \o TextEncode(Tail(str))

\* The value of one digit character in a radix, or NaN
DigitValue(c, radix) ==
    LET v == IF c >= 48 /\ c <= 57 THEN c - 48
             ELSE IF c >= 97 /\ c <= 122 THEN c - 87
             ELSE IF c >= 65 /\ c <= 90 THEN c - 55
             ELSE NaN
    IN  IF v # NaN /\ v < radix THEN v ELSE NaN

\* parseInt(s, radix) for a string without sign, blanks or 0x prefix: the value
\* of the longest prefix of digits, NaN when that prefix is empty
RECURSIVE ParseDigits(_, _, _)
ParseDigits(s, radix, acc) ==
    IF Len(s) = 0 \/ DigitValue(s[1], radix) = NaN THEN acc
    ELSE ParseDigits(Tail(s), radix, acc * radix + DigitValue(s[1], radix))

parseInt(s, radix) ==
    IF Len(s) = 0 \/ DigitValue(s[1], radix) = NaN THEN NaN
    ELSE ParseDigits(s, radix, 0)

\* The conversion of a number stored into a Uint8Array element
ToUint8(v) == IF v = NaN THEN 0 ELSE v % 256

\* s.padStart(n, c)
RECURSIVE padStart(_, _, _)
padStart(s, n, c) == IF Len(s) >= n THEN s ELSE padStart(<<c>> \o s, n, c)

\* The record type tags 'A' and 'AAAA'
A == <<65>>

AAAA == <<65, 65, 65, 65>>

(***************************************************************************)
(* parseDNSQuestion                                                        *)
(***************************************************************************)
\* What parseDNSQuestion returns when it returns null
NoQuestion == [ok |-> FALSE, name |-> <<>>, type |-> <<>>]

\* The while loop over the labels, from JavaScript offset `offset`.
\* view.getUint8 throws a RangeError at or past the end of the buffer.
RECURSIVE parseLabels(_, _, _)
parseLabels(buf, offset, labels) ==
    IF offset >= Len(buf)
    THEN [threw |-> TRUE, labels |-> labels, offset |-> offset]
    ELSE LET len == buf[offset + 1]
         IN  IF len = 0
             THEN [threw |-> FALSE, labels |-> labels, offset |-> offset + 1]
             ELSE parseLabels(buf, offset + 1 + len,
                     Append(labels, TextDecode(slice(buf, offset + 1, offset + 1 + len))))

\* A faulty variant: every type code other than 1 is taken for AAAA
parseDNSQuestion_anyType(buf) ==
    LET r == parseLabels(buf, 12, <<>>)
    IN  IF r.threw THEN NoQuestion
        ELSE IF r.offset + 2 > Len(buf) THEN NoQuestion
        ELSE LET name     == join(r.labels, 46) \o <<46>>
                 typeCode == buf[r.offset + 1] * 256 + buf[r.offset + 2]
             IN  [ok |-> TRUE, name |-> name,
                  type |-> IF typeCode = 1 THEN A ELSE AAAA]

parseDNSQuestion(buf) ==
    LET r == parseLabels(buf, 12, <<>>)
    IN  IF r.threw THEN NoQuestion
        ELSE IF r.offset + 2 > Len(buf) THEN NoQuestion   \* getUint16 throws
        ELSE LET name     == join(r.labels, 46) \o <<46>>
                 typeCode == buf[r.offset + 1] * 256 + buf[r.offset + 2]
                 type     == IF typeCode = 1 THEN A
                             ELSE IF typeCode = 28 THEN AAAA ELSE <<>>
             IN  IF type # <<>>
                 THEN [ok |-> TRUE, name |-> name, type |-> type]
                 ELSE NoQuestion

(***************************************************************************)
(* Typed arrays.  A Uint8Array has a length property; an ArrayBuffer has   *)
(* none (it has byteLength), so arr.length is undefined on it, and         *)
(* undefined in arithmetic is NaN.                                         *)
(***************************************************************************)
Uint8Array(bytes) ==
    [kind |-> "Uint8Array", bytes |-> [i \in 1..Len(bytes) |-> ToUint8(bytes[i])]]

ArrayBuffer(bytes) == [kind |-> "ArrayBuffer", bytes |-> bytes]

\* arr.length
lengthOf(arr) == IF arr.kind = "Uint8Array" THEN Len(arr.bytes) ELSE NaN

\* a + b on numbers, either of which may be NaN
plus(a, b) == IF a = NaN \/ b = NaN THEN NaN ELSE a + b

\* ToIndex / ToIntegerOrInfinity: NaN converts to 0
ToInteger(v) == IF v = NaN THEN 0 ELSE v

\* result.set(arr, offset) on a Uint8Array `result` (a byte sequence here).
\* A typed-array source is copied; any other object is read as an array-like,
\* whose missing length is 0 elements.  A source that does not fit throws a
\* RangeError.
typedArraySet(result, arr, offset) ==
    LET off == ToInteger(offset)
        src == IF arr.kind = "Uint8Array" THEN arr.bytes ELSE <<>>
    IN  IF Len(src) + off > Len(result)
        THEN [threw |-> TRUE, bytes |-> result]
        ELSE [threw |-> FALSE,
              bytes |-> [i \in 1..Len(result) |->
                            IF i > off /\ i <= off + Len(src)
                            THEN src[i - off] ELSE result[i]]]

\* arrays.reduce((sum, arr) => sum + arr.length, 0)
RECURSIVE totalLength(_)
totalLength(arrays) ==
    IF Len(arrays) = 0 THEN 0
    ELSE plus(totalLength(SubSeq(arrays, 1, Len(arrays) - 1)),
              lengthOf(arrays[Len(arrays)]))

\* for (const arr of arrays) { result.set(arr, offset); offset += arr.length }
RECURSIVE concatLoop(_, _, _)
concatLoop(arrays, result, offset) ==
    IF Len(arrays) = 0 THEN [threw |-> FALSE, bytes |-> result]
    ELSE LET r == typedArraySet(result, arrays[1], offset)
         IN  IF r.threw THEN r
             ELSE concatLoop(Tail(arrays), r.bytes, plus(offset, lengthOf(arrays[1])))

\* concatUint8Arrays(...arrays): [threw, bytes]
concatUint8Arrays(arrays) ==
    LET n == ToInteger(totalLength(arrays))       \* new Uint8Array(totalLength)
    IN  concatLoop(arrays, [i \in 1..n |-> 0], 0)

(***************************************************************************)
(* Address values of the table: a string, or an array of strings.          *)
(***************************************************************************)
Str(s) == [isArray |-> FALSE, items |-> <<s>>]

Arr(ss) == [isArray |-> TRUE, items |-> ss]

\* JavaScript truthiness of an address value: only the empty string is falsy
Truthy(v) == v.isArray \/ Len(v.items[1]) > 0

\* for (const label of labels) nameBuf.push(enc.length, ...enc)
RECURSIVE pushLabels(_)
pushLabels(labels) ==
    IF Len(labels) = 0 THEN <<>>
    ELSE LET enc == TextEncode(labels[1])
         IN  <<Len(enc)>> \o enc \o pushLabels(Tail(labels))

\* parts.map(n => parseInt(n))
parseIntEach(parts, radix) == [i \in 1..Len(parts) |-> parseInt(parts[i], radix)]

\* What a builder returns when it throws
Threw == [threw |-> TRUE, body |-> <<>>]

(***************************************************************************)
(* buildWireFormatResponse of src/index.js                                 *)
(***************************************************************************)
\* rdata of an AAAA record: 16 bytes, segment i written at 2i and 2i + 1
\* (a write past the end of a typed array is ignored)
rdataAAAA(segments) ==
    [k \in 1..16 |->
        LET i == (k - 1) \div 2
        IN  IF i >= Len(segments) THEN 0
            ELSE IF (k - 1) % 2 = 0
                 THEN (ToInteger(segments[i + 1]) \div 256) % 256
                 ELSE ToInteger(segments[i + 1]) % 256]

buildWireFormatResponse(qname, type, ipValue, reqBuf) ==
    LET labels    == split(SubSeq(qname, 1, Len(qname) - 1), 46)
        nameBytes == Uint8Array(pushLabels(labels) \o <<0>>)
        qtype     == IF type = A THEN 1 ELSE 28
        qclass    == 1
        id        == ArrayBuffer(slice(reqBuf, 0, 2))
        flags     == Uint8Array(<<129, 128>>)
        qdcount   == Uint8Array(<<0, 1>>)
        ancount   == Uint8Array(<<0, 1>>)
        nscount   == Uint8Array(<<0, 0>>)
        arcount   == Uint8Array(<<0, 0>>)
        header    == concatUint8Arrays(<<id, flags, qdcount, ancount, nscount, arcount>>)
        question  == concatUint8Arrays(
                        <<nameBytes, Uint8Array(<<0, qtype>>), Uint8Array(<<0, qclass>>)>>)
        \* ipValue[0] of an empty array is undefined, and undefined.split throws
        noStr     == ipValue.isArray /\ Len(ipValue.items) = 0
        ipStr     == IF noStr THEN <<>> ELSE ipValue.items[1]
        rdata     == IF type = A
                     THEN Uint8Array(parseIntEach(split(ipStr, 46), 10))
                     ELSE Uint8Array(rdataAAAA(
                             [i \in 1..Len(split(ipStr, 58)) |->
                                 LET s == split(ipStr, 58)[i]
                                 IN  parseInt(IF Len(s) = 0 THEN <<48>> ELSE s, 16)]))
        answer    == concatUint8Arrays(
                        <<nameBytes, Uint8Array(<<0, qtype>>), Uint8Array(<<0, qclass>>),
                          Uint8Array(<<0, 0, 0, 60>>),
                          Uint8Array(<<0, Len(rdata.bytes)>>), rdata>>)
        packet    == concatUint8Arrays(
                        <<Uint8Array(header.bytes), Uint8Array(question.bytes),
                          Uint8Array(answer.bytes)>>)
    IN  IF header.threw \/ question.threw THEN Threw
        ELSE IF noStr THEN Threw
        ELSE IF type # A /\ type # AAAA THEN Threw
        ELSE IF answer.threw \/ packet.threw THEN Threw
        ELSE [threw |-> FALSE, body |-> packet.bytes]

(***************************************************************************)
(* buildWireFormatResponse of src/unnamed/part_000                          *)
(***************************************************************************)
\* ip.split(':').flatMap(h => [parseInt(padded.slice(0, 2), 16),
\*                             parseInt(padded.slice(2), 16)])
RECURSIVE hexPairs(_)
hexPairs(groups) ==
    IF Len(groups) = 0 THEN <<>>
    ELSE LET padded == padStart(groups[1], 4, 48)
         IN  <<parseInt(SubSeq(padded, 1, 2), 16),
               parseInt(SubSeq(padded, 3, Len(padded)), 16)>> \o hexPairs(Tail(groups))

\* header[i] = v on a typed array: ignored past its end
setIndex(bytes, i, v) ==
    [k \in 1..Len(bytes) |-> IF k = i + 1 THEN v ELSE bytes[k]]

buildWireFormatResponse_part_000(name, type, ip, reqBuf) ==
    LET nameParts == split(name, 46)
        nameBuf   == pushLabels(nameParts) \o <<0>>
        qtype     == IF type = A THEN 1 ELSE 28
        qclass    == 1
        h0        == slice(reqBuf, 0, 12)
        header    == setIndex(setIndex(setIndex(setIndex(setIndex(setIndex(
                     setIndex(setIndex(setIndex(setIndex(h0,
                         2, 129), 3, 128), 4, 0), 5, 1), 6, 0), 7, 1),
                         8, 0), 9, 0), 10, 0), 11, 0)
        question  == Uint8Array(nameBuf \o <<0, qtype, 0, qclass>>)
        \* an array has no split method: ip.split(...) throws a TypeError
        ipStr     == ip.items[1]
        rdata     == IF type = A
                     THEN parseIntEach(split(ipStr, 46), 10)
                     ELSE hexPairs(split(ipStr, 58))
        answer    == Uint8Array(nameBuf \o <<0, qtype, 0, qclass, 0, 0, 0, 60,
                                            0, Len(rdata)>> \o rdata)
    IN  IF ip.isArray THEN Threw
        ELSE [threw |-> FALSE, body |-> header \o question.bytes \o answer.bytes]

\* JavaScript evaluates the arguments of buildWireFormatResponse before the call
\* and the builder's statements in order; the two builds share the call.
buildWire(b, qname, type, ipValue, reqBuf) ==
    IF b = "index.js"
    THEN buildWireFormatResponse(qname, type, ipValue, reqBuf)
    ELSE buildWireFormatResponse_part_000(qname, type, ipValue, reqBuf)

(***************************************************************************)
(* buildJSONResponse: the object that is serialised as the response body   *)
(***************************************************************************)
buildJSONResponse(qname, type, data) ==
    [Status |-> 0, TC |-> FALSE, RD |-> TRUE, RA |-> TRUE, AD |-> FALSE, CD |-> FALSE,
     Question |-> <<[name |-> qname, type |-> IF type = A THEN 1 ELSE 28]>>,
     Answer   |-> <<[name |-> qname, type |-> IF type = A THEN 1 ELSE 28,
                     TTL |-> 60, data |-> data]>>]

(***************************************************************************)
(* Bounds of the model                                                     *)
(***************************************************************************)
\* Concurrent invocations of the request handler
NumProcs == 2

\* Clock ticks a behaviour may take
MaxTicks == 5

\* Background refreshes in flight at once
MaxBg == 1

\* Versions of the table the override source serves while invocations overlap
NumPayloads == 2

Procs == 1..NumProcs

\* Date.now() advances in quarters of the validity window, from a start that
\* lies more than a window after the epoch (lastFetchTime = 0 is long ago)
Tick == CACHE_TTL_MS \div 4

StartTime == 2 * CACHE_TTL_MS

(***************************************************************************)
(* The override source: the tables it serves, by version                   *)
(***************************************************************************)
NameA == <<97, 46>>                         \* "a."

NameAB == <<97, 46, 98, 46>>                \* "a.b."

NameB == <<98, 46>>                         \* "b."

IP1 == <<49, 46, 50, 46, 51, 46, 52>>       \* "1.2.3.4"

IP2 == <<53, 46, 54, 46, 55, 46, 56>>       \* "5.6.7.8"

IP6 == <<49, 58, 50, 58, 51, 58, 52, 58, 53, 58, 54, 58, 55, 58, 102, 102>>  \* "1:2:3:4:5:6:7:ff"

Table1 == NameA :> (A :> Str(IP1))

Table2 == (NameA :> (A :> Arr(<<IP2, IP1>>) @@ AAAA :> Str(IP6)))
            @@ (NameAB :> (A :> Str(IP2)))

Table3 == NameB :> (AAAA :> Arr(<<IP6>>))

Tables == <<Table1, Table2, Table3>>

\* The fresh {} that fetchLocalDNS returns when there is no table
emptyObject == -2

\* The table a reference denotes
TableOf(ref) == IF ref = emptyObject THEN <<>> ELSE Tables[ref]

\* dnsMap[qname] && dnsMap[qname][type]
lookup(dnsMap, qname, type) ==
    /\ qname \in DOMAIN dnsMap
    /\ type \in DOMAIN dnsMap[qname]
    /\ Truthy(dnsMap[qname][type])

(***************************************************************************)
(* URL search parameters.  A raw character of the query string is a        *)
(* character code c written literally, or 1000 + c for c written as a      *)
(* percent escape.                                                         *)
(***************************************************************************)
\* Percent-decoding of one raw character ('+' is a blank)
decodeChar(x) == IF x = 43 THEN 32 ELSE x % 1000

decodeRaw(raw) == [i \in 1..Len(raw) |-> decodeChar(raw[i])]

\* application/x-www-form-urlencoded serialising of one character: letters,
\* digits and * - . _ stay, a blank is '+', the rest is escaped
encodeChar(c) ==
    IF \/ (c >= 48 /\ c <= 57) \/ (c >= 65 /\ c <= 90) \/ (c >= 97 /\ c <= 122)
       \/ c \in {42, 45, 46, 95}
    THEN c
    ELSE IF c = 32 THEN 43 ELSE 1000 + c

encodeRaw(value) == [i \in 1..Len(value) |-> encodeChar(value[i])]

\* searchParams.has(key)
has(search, key) == \E i \in 1..Len(search) : search[i].key = key

\* searchParams.get(key): the first value of the key, decoded; null is has = FALSE
get(search, key) ==
    IF has(search, key)
    THEN LET i == CHOOSE k \in 1..Len(search) :
                      search[k].key = key /\ \A j \in 1..(k - 1) : search[j].key # key
         IN  [has |-> TRUE, value |-> decodeRaw(search[i].raw)]
    ELSE [has |-> FALSE, value |-> <<>>]

\* searchParams.toString(): every pair re-serialised from its decoded value
toString(search) ==
    [i \in 1..Len(search) |->
        [key |-> search[i].key, raw |-> encodeRaw(decodeRaw(search[i].raw))]]

\* pathname.startsWith(prefix), for the prefixes '' and the pathname itself
startsWith(pathname, prefix) == prefix = "" \/ pathname = prefix

(***************************************************************************)
(* Responses.  kind: "purged", "redirect", "404", "json", "wire",          *)
(* "forward" (the promise of the upstream fetch is returned), "threw" (the *)
(* handler's promise rejects).                                             *)
(***************************************************************************)
Response(kind, status) ==
    [kind |-> kind, status |-> status, location |-> "", json |-> <<>>,
     bytes |-> <<>>, fwd |-> <<>>]

r404 == Response("404", 404)

\* fetch(url + '?' + query, {method, headers, body})
Forward(url, method, accept, ctype, search, body) ==
    [Response("forward", 0) EXCEPT
        !.fwd = <<[url |-> url, method |-> method, accept |-> accept,
                   ctype |-> ctype, search |-> search, body |-> body]>>]

\* A faulty variant: the name is looked up as given, without its final dot
jsonTail_noDot(r, dnsMap) ==
    LET name  == get(r.search, "name")
        tp    == get(r.search, "type")
        type  == IF tp.has /\ Len(tp.value) > 0 THEN tp.value ELSE A
        qname == name.value
    IN  IF lookup(dnsMap, qname, type)
        THEN [Response("json", 200) EXCEPT
                 !.json = <<buildJSONResponse(qname, type, dnsMap[qname][type])>>]
        ELSE Forward(dohjson, "GET", jstontype, "", toString(r.search), <<>>)

\* The JSON path once the table is known (index.js 46-54)
jsonTail(r, dnsMap) ==
    LET name  == get(r.search, "name")
        tp    == get(r.search, "type")
        type  == IF tp.has /\ Len(tp.value) > 0 THEN tp.value ELSE A
        \* null + '.' is "null."
        qname == IF ~name.has THEN <<110, 117, 108, 108, 46>>
                 ELSE IF endsWith(name.value, 46) THEN name.value
                 ELSE name.value \o <<46>>
    IN  IF lookup(dnsMap, qname, type)
        THEN [Response("json", 200) EXCEPT
                 !.json = <<buildJSONResponse(qname, type, dnsMap[qname][type])>>]
        ELSE Forward(dohjson, "GET", jstontype, "", toString(r.search), <<>>)

\* qname of the binary POST path (index.js 63-64)
postName(question) ==
    IF endsWith(question.name, 46) THEN question.name ELSE question.name \o <<46>>

\* A faulty variant: a miss forwards the request without its body
postTail_noBody(b, r, dnsMap) ==
    LET question == parseDNSQuestion(r.body)
        qname    == postName(question)
    IN  IF lookup(dnsMap, qname, question.type)
        THEN LET w == buildWire(b, qname, question.type,
                                dnsMap[qname][question.type], r.body)
             IN  IF w.threw THEN Response("threw", 0)
                 ELSE [Response("wire", 200) EXCEPT !.bytes = w.body]
        ELSE Forward(doh, "POST", contype, contype, <<>>, <<>>)

\* The binary POST path once the table is known (index.js 67-83)
postTail(b, r, dnsMap) ==
    LET question == parseDNSQuestion(r.body)
        qname    == postName(question)
    IN  IF lookup(dnsMap, qname, question.type)
        THEN LET w == buildWire(b, qname, question.type,
                                dnsMap[qname][question.type], r.body)
             IN  IF w.threw THEN Response("threw", 0)
                 ELSE [Response("wire", 200) EXCEPT !.bytes = w.body]
        ELSE Forward(doh, "POST", contype, contype, <<>>, r.body)

\* A faulty variant: the dns parameter is tested before the Accept header
route_dnsFirst(r) ==
    IF r.pathname = "/purge-cache" THEN "purge"
    ELSE IF r.pathname = "/.well-known/dns-query" THEN "redirect"
    ELSE IF ~startsWith(r.pathname, path) THEN "404"
    ELSE IF r.method = "GET" /\ has(r.search, "dns") THEN "get"
    ELSE IF r.method = "GET" /\ r.accept = jstontype THEN "json"
    ELSE IF r.method = "POST" /\ r.ctype = contype THEN "post"
    ELSE "404"

\* The case of handleRequest a request falls in, in the order of its tests
route(r) ==
    IF r.pathname = "/purge-cache" THEN "purge"
    ELSE IF r.pathname = "/.well-known/dns-query" THEN "redirect"
    ELSE IF ~startsWith(r.pathname, path) THEN "404"
    ELSE IF r.method = "GET" /\ r.accept = jstontype THEN "json"
    ELSE IF r.method = "POST" /\ r.ctype = contype THEN "post"
    ELSE IF r.method = "GET" /\ has(r.search, "dns") THEN "get"
    ELSE "404"

\* Whether the request reaches fetchLocalDNS
callsFetchLocalDNS(r) ==
    \/ route(r) = "json"
    \/ route(r) = "post" /\ parseDNSQuestion(r.body).ok

\* What the handler returns once fetchLocalDNS has returned the reference
\* `ref` (a property read on null throws a TypeError)
tail(b, r, ref) ==
    IF ref = null THEN Response("threw", 0)
    ELSE IF route(r) = "json" THEN jsonTail(r, TableOf(ref))
    ELSE postTail(b, r, TableOf(ref))

\* What the handler returns on the paths that never touch the cache
direct(r) ==
    IF route(r) = "redirect"
    THEN [Response("redirect", 301) EXCEPT !.location = "/dns-query"]
    ELSE IF route(r) = "post"
    THEN Forward(doh, "POST", contype, contype, <<>>, r.body)
    ELSE IF route(r) = "get"
    THEN Forward(doh, "GET", contype, "",
                 <<[key |-> "dns", raw |-> get(r.search, "dns").value]>>, <<>>)
    ELSE r404

(***************************************************************************)
(* fetchLocalDNS                                                           *)
(***************************************************************************)
\* if (!forceReload && localDNSCache && now - lastFetchTime > CACHE_TTL_MS / 2)
refreshDue(forceReload, cache, fetched, t) ==
    ~forceReload /\ cache # null /\ t - fetched > CACHE_TTL_MS \div 2

\* A faulty variant: the table is served only for half the window
servedFromCache_halfWindow(forceReload, cache, fetched, t) ==
    ~forceReload /\ cache # null /\ t - fetched < CACHE_TTL_MS \div 2

\* if (!forceReload && localDNSCache && now - lastFetchTime < CACHE_TTL_MS)
servedFromCache(forceReload, cache, fetched, t) ==
    ~forceReload /\ cache # null /\ t - fetched < CACHE_TTL_MS

\* lastFetchTime as the first if leaves it
stamped(forceReload, cache, fetched, t) ==
    IF refreshDue(forceReload, cache, fetched, t) THEN t ELSE fetched

\* A faulty variant: return localDNSCache, without the fallback to {}
onFetchFailed_noFallback(cache) == cache

\* catch (e) { return localDNSCache || {} }
onFetchFailed(cache) == IF cache # null THEN cache ELSE emptyObject

(***************************************************************************)
(* State                                                                   *)
(***************************************************************************)
VARIABLES
    build,          \* which build of the worker runs: "index.js" or "part_000"
    now,            \* Date.now()
    localDNSCache,  \* null or the version of the cached table
    lastFetchTime,
    inv,            \* per invocation: where handleRequest stands
    bg,             \* the start times of the background refreshes in flight
    purged,         \* a purge has run and fetchLocalDNS was not called since
    prevCall,       \* the last fetchLocalDNS call served within the window, and
                    \* when the refresh branch was last taken (0: not since a purge),
                    \* and when the fetch that brought the cached table started
    last,           \* what the step just taken did and returned, if anything
    codec           \* the codec applied on its own: inputs, stage and results

vars == <<build, now, localDNSCache, lastFetchTime, inv, bg, purged, prevCall,
          last, codec>>

NoRequest ==
    [method |-> "", pathname |-> "", accept |-> "", ctype |-> "",
     search |-> <<>>, body |-> <<>>]

\* What is recorded of one fetchLocalDNS call as it is made
NoObs ==
    [hadTable |-> FALSE, age |-> 0, did |-> "none", afterPurge |-> FALSE,
     prevValid |-> FALSE, prevRet |-> null, prevDirty |-> FALSE, slot |-> 0, origin |-> 0]

Idle == [pc |-> "idle", req |-> NoRequest, t |-> 0]

\* step: "purge", "direct", "served" (fetchLocalDNS returned the cached table
\* and the handler returned), "await" (fetchLocalDNS awaits the synchronous
\* fetch), "syncok", "syncfail" (the fetch ended and the handler returned),
\* "bgok", "bgfail" (a background refresh ended; nothing is returned).
\* ret is what fetchLocalDNS returned; preCache and preTime are the cache
\* entry as the step found it; started is when the fetch that ended had
\* started, preOrigin when the fetch that had brought preCache had.
NoEvent ==
    [req |-> NoRequest, step |-> "none", resp |-> Response("none", 0),
     obs |-> NoObs, ret |-> null, preCache |-> null, preTime |-> 0,
     started |-> 0, preOrigin |-> 0]

NoCodec ==
    [stage |-> "none", qname |-> <<>>, type |-> <<>>, threw |-> FALSE,
     out |-> <<>>, dec |-> NoQuestion]

NoPrev == [valid |-> FALSE, ret |-> null, dirty |-> FALSE, slot |-> 0, origin |-> 0]

\* A write of the cache entry lies between the last served call and the next
Dirtied(pc) == IF pc.valid THEN [pc EXCEPT !.dirty = TRUE] ELSE pc

InitCache ==
    /\ now = StartTime
    /\ localDNSCache = null
    /\ lastFetchTime = 0
    /\ inv = [p \in Procs |-> Idle]
    /\ bg = <<>>
    /\ purged = FALSE
    /\ prevCall = NoPrev
    /\ last = NoEvent
    /\ codec = NoCodec

(***************************************************************************)
(* Actions                                                                 *)
(***************************************************************************)
\* Time passes
TickClock ==
    /\ now < StartTime + MaxTicks * Tick
    /\ now' = now + Tick
    /\ last' = NoEvent
    /\ UNCHANGED <<codec, build, localDNSCache, lastFetchTime, inv, bg, purged, prevCall>>

\* A faulty variant: the purge clears the table and keeps the timestamp
Purge_keepsTime(p, r) ==
    /\ inv[p].pc = "idle"
    /\ route(r) = "purge"
    /\ localDNSCache' = null
    /\ purged' = TRUE
    /\ prevCall' = [Dirtied(prevCall) EXCEPT !.slot = 0, !.origin = 0]
    /\ last' = [NoEvent EXCEPT !.req = r, !.step = "purge",
                   !.resp = Response("purged", 200),
                   !.preCache = localDNSCache, !.preTime = lastFetchTime]
    /\ UNCHANGED <<codec, build, now, lastFetchTime, inv, bg>>

\* GET /purge-cache (index.js 26-30)
Purge(p, r) ==
    /\ inv[p].pc = "idle"
    /\ route(r) = "purge"
    /\ localDNSCache' = null
    /\ lastFetchTime' = 0
    /\ purged' = TRUE
    /\ prevCall' = [Dirtied(prevCall) EXCEPT !.slot = 0, !.origin = 0]
    /\ last' = [NoEvent EXCEPT !.req = r, !.step = "purge",
                   !.resp = Response("purged", 200),
                   !.preCache = localDNSCache, !.preTime = lastFetchTime]
    /\ UNCHANGED <<codec, build, now, inv, bg>>

\* A faulty variant: every request handled stamps lastFetchTime
Direct_stamps(p, r) ==
    /\ inv[p].pc = "idle"
    /\ route(r) # "purge"
    /\ ~callsFetchLocalDNS(r)
    /\ lastFetchTime' = now
    /\ last' = [NoEvent EXCEPT !.req = r, !.step = "direct",
                   !.resp = direct(r),
                   !.preCache = localDNSCache, !.preTime = lastFetchTime]
    /\ UNCHANGED <<codec, build, now, localDNSCache, inv, bg, purged, prevCall>>

\* The requests that are answered without the cache: the redirect, the 404s,
\* the binary GET, and the binary POST whose question does not decode
Direct(p, r) ==
    /\ inv[p].pc = "idle"
    /\ route(r) # "purge"
    /\ ~callsFetchLocalDNS(r)
    /\ last' = [NoEvent EXCEPT !.req = r, !.step = "direct",
                   !.resp = direct(r),
                   !.preCache = localDNSCache, !.preTime = lastFetchTime]
    /\ UNCHANGED <<codec, build, now, localDNSCache, lastFetchTime, inv, bg, purged,
                   prevCall>>

\* A JSON GET or a decoded binary POST, up to the return of fetchLocalDNS or to
\* its await of the synchronous fetch (index.js 44, 65, 98-117)
Call(p, r) ==
    /\ inv[p].pc = "idle"
    /\ callsFetchLocalDNS(r)
    /\ LET due      == refreshDue(FALSE, localDNSCache, lastFetchTime, now)
           fetched  == stamped(FALSE, localDNSCache, lastFetchTime, now)
           served   == servedFromCache(FALSE, localDNSCache, fetched, now)
           inWindow == localDNSCache # null /\ now - lastFetchTime < CACHE_TTL_MS
           obs == [hadTable   |-> (localDNSCache # null),
                   age        |-> now - lastFetchTime,
                   did        |-> IF ~served THEN "sync"
                                  ELSE IF due THEN "refresh" ELSE "cache",
                   afterPurge |-> purged,
                   prevValid  |-> prevCall.valid,
                   prevRet    |-> prevCall.ret,
                   prevDirty  |-> prevCall.dirty,
                   slot       |-> prevCall.slot,
                   origin     |-> prevCall.origin]
           slot == IF due THEN now ELSE prevCall.slot
           ev == [NoEvent EXCEPT !.req = r, !.obs = obs,
                     !.preCache = localDNSCache, !.preTime = lastFetchTime]
       IN  /\ due => Len(bg) < MaxBg
           /\ lastFetchTime' = fetched
           /\ bg' = IF due THEN Append(bg, now) ELSE bg
           /\ prevCall' = IF served /\ inWindow
                          THEN [valid |-> TRUE, ret |-> localDNSCache, dirty |-> FALSE,
                                slot |-> slot, origin |-> prevCall.origin]
                          ELSE [prevCall EXCEPT !.slot = slot]
           /\ IF served
              THEN /\ inv' = inv
                   /\ last' = [ev EXCEPT !.step = "served", !.ret = localDNSCache,
                                  !.resp = tail(build, r, localDNSCache)]
              ELSE /\ inv' = [inv EXCEPT ![p] = [pc |-> "fetching", req |-> r, t |-> now]]
                   /\ last' = [ev EXCEPT !.step = "await"]
    /\ purged' = FALSE
    /\ UNCHANGED <<codec, build, now, localDNSCache>>

\* The synchronous fetch succeeds with the table `data` (index.js 117-122)
SyncOk(p, data) ==
    /\ inv[p].pc = "fetching"
    /\ localDNSCache' = data
    /\ lastFetchTime' = inv[p].t
    /\ prevCall' = [Dirtied(prevCall) EXCEPT !.origin = inv[p].t]
    /\ inv' = [inv EXCEPT ![p] = Idle]
    /\ last' = [NoEvent EXCEPT !.req = inv[p].req, !.step = "syncok",
                   !.ret = data, !.resp = tail(build, inv[p].req, data),
                   !.started = inv[p].t, !.preOrigin = prevCall.origin,
                   !.preCache = localDNSCache, !.preTime = lastFetchTime]
    /\ UNCHANGED <<codec, build, now, bg, purged>>

\* The synchronous fetch fails: it rejects, or the response is not ok, or its
\* body is no JSON (index.js 117-119, 123-126)
SyncFail(p) ==
    /\ inv[p].pc = "fetching"
    /\ inv' = [inv EXCEPT ![p] = Idle]
    /\ last' = [NoEvent EXCEPT !.req = inv[p].req, !.step = "syncfail",
                   !.ret = onFetchFailed(localDNSCache),
                   !.resp = tail(build, inv[p].req, onFetchFailed(localDNSCache)),
                   !.preCache = localDNSCache, !.preTime = lastFetchTime]
    /\ UNCHANGED <<codec, build, now, localDNSCache, lastFetchTime, bg, purged, prevCall>>

\* q without its i-th element
Without(q, i) == SubSeq(q, 1, i - 1) \o SubSeq(q, i + 1, Len(q))

\* A background refresh succeeds with the table `data` (index.js 104-108)
BgOk(i, data) ==
    /\ i \in 1..Len(bg)
    /\ localDNSCache' = data
    /\ bg' = Without(bg, i)
    /\ prevCall' = [Dirtied(prevCall) EXCEPT !.origin = bg[i]]
    /\ last' = [NoEvent EXCEPT !.step = "bgok", !.ret = data,
                   !.started = bg[i], !.preOrigin = prevCall.origin,
                   !.preCache = localDNSCache, !.preTime = lastFetchTime]
    /\ UNCHANGED <<codec, build, now, lastFetchTime, inv, purged>>

\* A faulty variant: a failed background refresh drops the cached table
BgFail_dropsTable(i) ==
    /\ i \in 1..Len(bg)
    /\ bg' = Without(bg, i)
    /\ localDNSCache' = null
    /\ last' = [NoEvent EXCEPT !.step = "bgfail",
                   !.preCache = localDNSCache, !.preTime = lastFetchTime]
    /\ UNCHANGED <<codec, build, now, lastFetchTime, inv, purged, prevCall>>

\* A background refresh fails (index.js 105, 109)
BgFail(i) ==
    /\ i \in 1..Len(bg)
    /\ bg' = Without(bg, i)
    /\ last' = [NoEvent EXCEPT !.step = "bgfail",
                   !.preCache = localDNSCache, !.preTime = lastFetchTime]
    /\ UNCHANGED <<codec, build, now, localDNSCache, lastFetchTime, inv, purged, prevCall>>

(***************************************************************************)
(* The requests of the model                                               *)
(***************************************************************************)
\* A 12-byte DNS header: transaction id, flags, counts
Header1 == <<171, 205, 1, 0, 0, 1, 0, 0, 0, 0, 0, 0>>

\* another id, with response flags and counts no query carries
Header2 == <<18, 52, 255, 255, 0, 2, 0, 3, 0, 4, 0, 5>>

Headers == {Header1, Header2}

\* Question sections: a. A, a. AAAA, a.b. A, a. NS, the root A, one label
\* "a.b" A, a. A cut short, a label running past the end
Questions ==
    { <<1, 97, 0, 0, 1, 0, 1>>,
      <<1, 97, 0, 0, 28, 0, 1>>,
      <<1, 97, 1, 98, 0, 0, 1, 0, 1>>,
      <<1, 97, 0, 0, 2, 0, 1>>,
      <<0, 0, 1, 0, 1>>,
      <<3, 97, 46, 98, 0, 0, 1, 0, 1>>,
      <<1, 97, 0, 0>>,
      <<9, 97>> }

Bodies == {h \o q : h \in Headers, q \in Questions} \cup {<<>>}

Param(key, raw) == [key |-> key, raw |-> raw]

\* Query strings: none, name=a, name=a., name=%61 (an escaped a), name=b,
\* name=b and type=AAAA, type= (empty), dns=ab, and combinations
Searches ==
    { <<>>,
      <<Param("name", <<97>>)>>,
      <<Param("name", <<97, 46>>)>>,
      <<Param("name", <<1097>>), Param("type", A)>>,
      <<Param("name", <<98>>), Param("type", A)>>,
      <<Param("name", <<97>>), Param("type", AAAA)>>,
      <<Param("name", <<98>>), Param("type", AAAA)>>,
      <<Param("name", <<97>>), Param("type", <<>>)>>,
      <<Param("type", A)>>,
      <<Param("dns", <<97, 98>>)>>,
      <<Param("dns", <<97, 1098>>), Param("name", <<97>>)>>,
      <<Param("name", <<97, 46, 98>>), Param("name", <<97>>)>> }

Pathnames == {"/purge-cache", "/.well-known/dns-query", "/dns-query", "/"}

Methods == {"GET", "POST", "PUT"}

\* Every request of the routing specification: every combination of what
\* the classification reads, every query string on the JSON path, every body
\* on the binary POST path
WideRequests ==
    [method : Methods, pathname : Pathnames, accept : {jstontype, contype},
     ctype : {contype, ""},
     search : {<<>>, <<Param("dns", <<97, 98>>)>>,
               <<Param("name", <<97>>), Param("type", A)>>},
     body : {<<>>}]
    \cup
    [method : {"GET"}, pathname : {"/dns-query"}, accept : {jstontype},
     ctype : {""}, search : Searches, body : {<<>>}]
    \cup
    [method : {"GET"}, pathname : {"/"}, accept : {""},
     ctype : {""}, search : Searches, body : {<<>>}]
    \cup
    [method : {"POST"}, pathname : {"/dns-query"}, accept : {""},
     ctype : {contype}, search : {<<>>}, body : Bodies]

ReqPurge ==
    [method |-> "GET", pathname |-> "/purge-cache", accept |-> "", ctype |-> "",
     search |-> <<>>, body |-> <<>>]

ReqJson ==
    [method |-> "GET", pathname |-> "/dns-query", accept |-> jstontype, ctype |-> "",
     search |-> <<Param("name", <<97>>), Param("type", A)>>, body |-> <<>>]

ReqPost ==
    [method |-> "POST", pathname |-> "/dns-query", accept |-> "", ctype |-> contype,
     search |-> <<>>, body |-> Header1 \o <<1, 97, 0, 0, 1, 0, 1>>]

ReqGet ==
    [method |-> "GET", pathname |-> "/dns-query", accept |-> contype, ctype |-> "",
     search |-> <<Param("dns", <<97, 98>>)>>, body |-> <<>>]

\* The requests of the concurrent specification
CacheRequests == {ReqPurge, ReqJson, ReqGet}

\* The tables a fetch may bring while invocations overlap
Payloads == 1..Min(NumPayloads, Len(Tables))

(***************************************************************************)
(* Specifications                                                          *)
(***************************************************************************)
\* Concurrent invocations over the shared cache entry.  fetchLocalDNS and the
\* JSON path are the same in both builds.
Init ==
    /\ build = "index.js"
    /\ InitCache

Next ==
    \/ TickClock
    \/ \E p \in Procs, r \in CacheRequests : Purge(p, r)
    \/ \E p \in Procs, r \in CacheRequests : Direct(p, r)
    \/ \E p \in Procs, r \in CacheRequests : Call(p, r)
    \/ \E p \in Procs, data \in Payloads : SyncOk(p, data)
    \/ \E p \in Procs : SyncFail(p)
    \/ \E i \in 1..MaxBg, data \in Payloads : BgOk(i, data)
    \/ \E i \in 1..MaxBg : BgFail(i)

Spec == Init /\ [][Next]_vars

\* One invocation at a time, every request, every table of the source, both
\* builds
InitRouter ==
    /\ build \in {"index.js", "part_000"}
    /\ InitCache

NextRouter ==
    \/ \E r \in WideRequests : Purge(1, r)
    \/ \E r \in WideRequests : Direct(1, r)
    \/ \E r \in WideRequests : Call(1, r)
    \/ \E data \in 1..Len(Tables) : SyncOk(1, data)
    \/ SyncFail(1)

SpecRouter == InitRouter /\ [][NextRouter]_vars

(***************************************************************************)
(* The codec on its own: a wire answer is built for a name and a type, and *)
(* parseDNSQuestion is applied to what was built.                          *)
(***************************************************************************)
\* Longest name the codec is applied to, its final dot included
MaxNameLen == 4

\* The characters of the names: a, b and the dot
NameChars == {97, 98, 46}

RECURSIVE StringsUpTo(_)
StringsUpTo(n) ==
    IF n = 0 THEN {<<>>}
    ELSE LET shorter == StringsUpTo(n - 1)
         IN  shorter \cup {Append(s, c) : s \in {x \in shorter : Len(x) = n - 1},
                                          c \in NameChars}

\* Every dot-terminated name of at most MaxNameLen characters
DottedNames == {Append(s, 46) : s \in StringsUpTo(MaxNameLen - 1)}

\* The address the codec is given for a type
AddressFor(type) == IF type = A THEN Str(IP1) ELSE Str(IP6)

InitCodec ==
    /\ build \in {"index.js", "part_000"}
    /\ now = StartTime
    /\ localDNSCache = null
    /\ lastFetchTime = 0
    /\ inv = [p \in Procs |-> Idle]
    /\ bg = <<>>
    /\ purged = FALSE
    /\ prevCall = NoPrev
    /\ last = NoEvent
    /\ \E qname \in DottedNames, type \in {A, AAAA} :
          codec = [NoCodec EXCEPT !.stage = "input", !.qname = qname, !.type = type]

\* buildWireFormatResponse(qname, type, address, request)
Encode ==
    /\ codec.stage = "input"
    /\ LET w == buildWire(build, codec.qname, codec.type, AddressFor(codec.type),
                          Header1 \o <<1, 97, 0, 0, 1, 0, 1>>)
       IN  codec' = [codec EXCEPT !.stage = "built", !.threw = w.threw, !.out = w.body]
    /\ UNCHANGED <<build, now, localDNSCache, lastFetchTime, inv, bg, purged, prevCall,
                   last>>

\* parseDNSQuestion(the message that was built)
Decode ==
    /\ codec.stage = "built"
    /\ ~codec.threw
    /\ codec' = [codec EXCEPT !.stage = "decoded", !.dec = parseDNSQuestion(codec.out)]
    /\ UNCHANGED <<build, now, localDNSCache, lastFetchTime, inv, bg, purged, prevCall,
                   last>>

NextCodec == Encode \/ Decode

SpecCodec == InitCodec /\ [][NextCodec]_vars

(***************************************************************************)
(* The decoder on its own: parseDNSQuestion applied to arbitrary buffers.  *)
(***************************************************************************)
\* Longest question section: the bytes after the 12-byte header
MaxQuestionLen == 5

\* The bytes of the buffers: the terminator, the type codes 1 and 28 (also
\* label lengths), a longer label length, a letter, a non-ASCII byte
BufferBytes == {0, 1, 3, 28, 97, 200}

RECURSIVE BytesUpTo(_)
BytesUpTo(n) ==
    IF n = 0 THEN {<<>>}
    ELSE LET shorter == BytesUpTo(n - 1)
         IN  shorter \cup {Append(s, c) : s \in {x \in shorter : Len(x) = n - 1},
                                          c \in BufferBytes}

\* The buffers: a header and a question section of any bytes, and buffers
\* shorter than a header
Buffers ==
    {Header1 \o q : q \in BytesUpTo(MaxQuestionLen)}
        \cup {SubSeq(Header1, 1, n) : n \in 0..11}

InitDecoder ==
    /\ build \in {"index.js", "part_000"}
    /\ now = StartTime
    /\ localDNSCache = null
    /\ lastFetchTime = 0
    /\ inv = [p \in Procs |-> Idle]
    /\ bg = <<>>
    /\ purged = FALSE
    /\ prevCall = NoPrev
    /\ last = NoEvent
    /\ \E buf \in Buffers : codec = [NoCodec EXCEPT !.stage = "buffer", !.out = buf]

\* parseDNSQuestion(buf)
Parse ==
    /\ codec.stage = "buffer"
    /\ codec' = [codec EXCEPT !.stage = "parsed", !.dec = parseDNSQuestion(codec.out)]
    /\ UNCHANGED <<build, now, localDNSCache, lastFetchTime, inv, bg, purged, prevCall,
                   last>>

NextDecoder == Parse

SpecDecoder == InitDecoder /\ [][NextDecoder]_vars

(***************************************************************************)
(* Properties                                                              *)
(***************************************************************************)
\* The step just taken was a call of fetchLocalDNS
IsCall == last.step \in {"served", "await"}

\* The step just taken returned a response to the host
Returned == last.step \in {"purge", "direct", "served", "syncok", "syncfail"}

\* The call just made found a table younger than the validity window
InWindow == last.obs.hadTable /\ last.obs.age < CACHE_TTL_MS

\* C1: a call that finds a table as old as the validity window or older blocks
\* on the synchronous fetch, and the background refresh is started only for an
\* age strictly between the half window and the full window.
C1_FullExpiryBlocks ==
    (IsCall /\ last.obs.hadTable) =>
        /\ (last.obs.age >= CACHE_TTL_MS => last.obs.did = "sync")
        /\ (last.obs.did = "refresh" =>
                /\ last.obs.age > CACHE_TTL_MS \div 2
                /\ last.obs.age < CACHE_TTL_MS)

\* C2: the first fetchLocalDNS call after a purge performs the synchronous
\* fetch, whatever was interleaved between the purge and the call.
C2_SyncAfterPurge ==
    (IsCall /\ last.obs.afterPurge) => last.obs.did = "sync"

\* C3, as claimed: a call within the validity window performs no synchronous
\* fetch, and returns the table that the previous call within the window
\* returned, whatever happened between the two.
C3_SameTableAlways ==
    (IsCall /\ InWindow) =>
        /\ last.step = "served"
        /\ last.obs.prevValid => last.ret = last.obs.prevRet

\* C3, amended: a call within the validity window performs no synchronous
\* fetch, and returns the table that the previous call within the window
\* returned unless a fetch completion or a purge wrote the cache entry between
\* the two calls.
C3_SameTableUnlessWritten ==
    (IsCall /\ InWindow) =>
        /\ last.step = "served"
        /\ (last.obs.prevValid /\ ~last.obs.prevDirty) => last.ret = last.obs.prevRet

\* A second call within the window, later than the fetch, nothing written since
\* the first call
C3_Witness ==
    /\ last.step = "served"
    /\ InWindow
    /\ last.obs.age > 0
    /\ last.obs.prevValid
    /\ ~last.obs.prevDirty
    /\ last.ret = last.obs.prevRet

\* C4: when the synchronous fetch fails, fetchLocalDNS returns the cached table
\* if there is one and an empty table otherwise, never an error, and the call
\* writes neither the table nor lastFetchTime (not as it starts to await the
\* fetch, and not as the fetch fails).
C4_FailedFetchFallsBack ==
    /\ last.step = "syncfail" =>
          /\ last.ret \in (1..Len(Tables)) \cup {emptyObject}
          /\ last.ret = IF last.preCache # null THEN last.preCache ELSE emptyObject
          /\ localDNSCache = last.preCache
          /\ lastFetchTime = last.preTime
    /\ last.step = "await" =>
          /\ localDNSCache = last.preCache
          /\ lastFetchTime = last.preTime

\* A synchronous fetch fails while a table is cached (another invocation's
\* fetch brought it meanwhile)
C4_Witness ==
    /\ last.step = "syncfail"
    /\ last.preCache # null
    /\ last.ret = last.preCache

\* C5: of the invocations that arrive while there is no table, at
\* most one is in its synchronous fetch.
C5_SingleSyncFetch ==
    Cardinality({p \in Procs : inv[p].pc = "fetching"}) <= 1

\* Every invocation is in its own synchronous fetch at once
C5_Witness ==
    /\ last.step = "await"
    /\ \A p \in Procs : inv[p].pc = "fetching"

\* C6: the handler never throws: every response is a local answer, a fallback
\* or a forwarded request.
C6_NoException == last.resp.kind # "threw"

\* The binary POST just answered decoded, and its question is in the table
PostHit ==
    /\ Returned
    /\ last.req.pathname \notin {"/purge-cache", "/.well-known/dns-query"}
    /\ last.req.method = "POST"
    /\ last.req.ctype = contype
    /\ last.ret # null
    /\ LET q == parseDNSQuestion(last.req.body)
       IN  q.ok /\ lookup(TableOf(last.ret), postName(q), q.type)

\* C7: the answer to a binary POST whose question is in the table starts with
\* the 2 id bytes of the request, then 0x81 0x80, then the counts 1, 1, 0, 0.
C7_WireHeader ==
    PostHit =>
        /\ last.resp.kind = "wire"
        /\ Len(last.resp.bytes) >= 12
        /\ SubSeq(last.resp.bytes, 1, 2) = SubSeq(last.req.body, 1, 2)
        /\ SubSeq(last.resp.bytes, 3, 12) = <<129, 128, 0, 1, 0, 1, 0, 0, 0, 0>>

\* C8: for every dot-terminated name and type, the answer is built, and
\* parseDNSQuestion applied to it recovers the name and the type.
C8_RoundTrip ==
    /\ codec.stage = "built" => ~codec.threw
    /\ codec.stage = "decoded" =>
          codec.dec = [ok |-> TRUE, name |-> codec.qname, type |-> codec.type]

\* C9: the response is that of the first case the request matches, in the
\* order purge, redirect, base path, JSON GET, binary POST, binary GET, 404.
\* (The binary POST path ends in a wire answer, a failed build of one, or the
\* forwarded body.)
C9_Classification ==
    Returned =>
        LET r == last.req
            k == last.resp
            hasDns == \E i \in 1..Len(r.search) : r.search[i].key = "dns"
        IN  IF r.pathname = "/purge-cache"
            THEN k.kind = "purged" /\ k.status = 200
                 /\ localDNSCache = null /\ lastFetchTime = 0
            ELSE IF r.pathname = "/.well-known/dns-query"
            THEN k.kind = "redirect" /\ k.status = 301 /\ k.location = "/dns-query"
            ELSE IF path # "" /\ r.pathname # path
            THEN k.kind = "404"
            ELSE IF r.method = "GET" /\ r.accept = jstontype
            THEN \/ k.kind = "json"
                 \/ k.kind = "forward" /\ k.fwd[1].method = "GET"
                       /\ k.fwd[1].accept = jstontype
            ELSE IF r.method = "POST" /\ r.ctype = contype
            THEN \/ k.kind \in {"wire", "threw"}
                 \/ k.kind = "forward" /\ k.fwd[1].method = "POST"
                       /\ k.fwd[1].body = r.body
            ELSE IF r.method = "GET" /\ hasDns
            THEN k.kind = "forward" /\ k.fwd[1].method = "GET"
                    /\ k.fwd[1].accept = contype
            ELSE k.kind = "404" /\ k.status = 404

\* A GET with Accept: application/dns-json and a dns parameter took the JSON path
C9_Witness ==
    /\ Returned
    /\ last.req.pathname = "/dns-query"
    /\ last.req.method = "GET"
    /\ last.req.accept = jstontype
    /\ \E i \in 1..Len(last.req.search) : last.req.search[i].key = "dns"
    /\ last.resp.kind = "forward"
    /\ last.resp.fwd[1].accept = jstontype

\* The request just answered took the JSON path with a name parameter
JsonAnswered ==
    /\ Returned
    /\ last.req.pathname \notin {"/purge-cache", "/.well-known/dns-query"}
    /\ last.req.method = "GET"
    /\ last.req.accept = jstontype
    /\ \E i \in 1..Len(last.req.search) : last.req.search[i].key = "name"
    /\ last.ret # null

HasParam(search, key) == \E i \in 1..Len(search) : search[i].key = key

\* The decoded value of the first parameter of that key
FirstValue(search, key) ==
    LET i == CHOOSE k \in 1..Len(search) :
                 search[k].key = key /\ \A j \in 1..(k - 1) : search[j].key # key
    IN  [n \in 1..Len(search[i].raw) |-> decodeChar(search[i].raw[n])]

Dotted(s) == IF Len(s) > 0 /\ s[Len(s)] = 46 THEN s ELSE Append(s, 46)

\* The JSON path for the requested type `ty`: a local answer exactly on a hit
\* of the table that fetchLocalDNS returned, built as described; else one
\* forwarded GET to the JSON endpoint
JsonRule(ty) ==
    LET k    == last.resp
        T    == TableOf(last.ret)
        qn   == Dotted(FirstValue(last.req.search, "name"))
        hit  == qn \in DOMAIN T /\ ty \in DOMAIN T[qn]
        code == IF ty = A THEN 1 ELSE 28
    IN  /\ (k.kind = "json") <=> hit
        /\ hit =>
              /\ Len(k.json) = 1
              /\ k.json[1].Question = <<[name |-> qn, type |-> code]>>
              /\ k.json[1].Answer =
                    <<[name |-> qn, type |-> code, TTL |-> 60, data |-> T[qn][ty]]>>
        /\ ~hit =>
              /\ k.kind = "forward"
              /\ Len(k.fwd) = 1
              /\ k.fwd[1].url = dohjson
              /\ k.fwd[1].method = "GET"
              /\ k.fwd[1].accept = jstontype

\* The forwarded parameters are those of the request: keys, decoded values, order
SameParams(f, g) ==
    /\ Len(f) = Len(g)
    /\ \A i \in 1..Len(f) :
          /\ f[i].key = g[i].key
          /\ Len(f[i].raw) = Len(g[i].raw)
          /\ \A n \in 1..Len(f[i].raw) :
                decodeChar(f[i].raw[n]) = decodeChar(g[i].raw[n])

PostAnswered ==
    /\ Returned
    /\ last.req.pathname \notin {"/purge-cache", "/.well-known/dns-query"}
    /\ last.req.method = "POST"
    /\ last.req.ctype = contype

\* The table the binary POST just answered was looked up in (none when the
\* question did not decode)
PostTable == IF last.step = "direct" THEN <<>> ELSE TableOf(last.ret)

\* The decoded question of the binary POST just answered has an entry
PostPresent ==
    LET q == parseDNSQuestion(last.req.body)
    IN  /\ q.ok
        /\ Dotted(q.name) \in DOMAIN PostTable
        /\ q.type \in DOMAIN PostTable[Dotted(q.name)]

\* C11: on the binary POST path every miss (the question does not decode, the
\* name is not in the table, the type is not under the name) forwards one POST
\* with the request's body to the binary endpoint, and a local answer is
\* returned only when the decoded name and type are in the table.
C11_PostMissForwards ==
    PostAnswered =>
        /\ ~PostPresent =>
              /\ last.resp.kind = "forward"
              /\ Len(last.resp.fwd) = 1
              /\ last.resp.fwd[1].url = doh
              /\ last.resp.fwd[1].method = "POST"
              /\ last.resp.fwd[1].body = last.req.body
        /\ last.resp.kind \in {"wire", "json"} => PostPresent

\* A decoded question whose name is in the table, without the type asked for
C11_Witness ==
    /\ PostAnswered
    /\ last.step # "direct"
    /\ LET q == parseDNSQuestion(last.req.body)
       IN  /\ q.ok
           /\ Dotted(q.name) \in DOMAIN PostTable
           /\ q.type \notin DOMAIN PostTable[Dotted(q.name)]
    /\ last.resp.kind = "forward"
    /\ last.resp.fwd[1].body = last.req.body
    /\ Len(last.req.body) > 12

\* The address value the binary POST just answered matched
PostValue ==
    LET q == parseDNSQuestion(last.req.body)
    IN  TableOf(last.ret)[postName(q)][q.type]

\* C12: when the matched address value is an array, the wire answer is built
\* (building it does not fail) and its rdata is the first element alone, and
\* the JSON answer carries the whole array as its data field.
C12_ArrayValue ==
    /\ (PostHit /\ PostValue.isArray) =>
          /\ last.resp.kind = "wire"
          /\ parseDNSQuestion(last.req.body).type = A =>
                LET rdata == parseIntEach(split(PostValue.items[1], 46), 10)
                    n     == Len(last.resp.bytes)
                IN  /\ n >= 4
                    /\ SubSeq(last.resp.bytes, n - 3, n) = rdata
    /\ (JsonAnswered /\ last.resp.kind = "json") =>
          LET T  == TableOf(last.ret)
              qn == last.resp.json[1].Answer[1].name
              ty == IF last.resp.json[1].Answer[1].type = 1 THEN A ELSE AAAA
          IN  T[qn][ty].isArray => last.resp.json[1].Answer[1].data = T[qn][ty]

\* A binary POST matched an array value of two addresses
C12_Witness ==
    /\ PostHit
    /\ PostValue.isArray
    /\ Len(PostValue.items) = 2

\* Offset of the zero byte that ends the name starting at offset o, or -1
\* when the buffer ends first or a label runs past its end
RECURSIVE NameEnd(_, _)
NameEnd(b, o) ==
    IF o >= Len(b) THEN -1
    ELSE IF b[o + 1] = 0 THEN o
    ELSE IF o + 1 + b[o + 1] > Len(b) THEN -1
    ELSE NameEnd(b, o + 1 + b[o + 1])

\* The buffer is cut short, or a label runs past its end, or the type code
\* after the terminator is neither 1 nor 28
Malformed(b) ==
    LET e == NameEnd(b, 12)
    IN  \/ e = -1
        \/ e + 3 > Len(b)
        \/ b[e + 2] * 256 + b[e + 3] \notin {1, 28}

\* C13: parseDNSQuestion returns, for every buffer, either the failure marker
\* or a question with a dot-terminated name and the type A or AAAA, and it
\* returns the failure marker for a buffer that is cut short, for a label that
\* runs past the end, and for a type code other than 1 and 28.
C13_DecodeTotal ==
    codec.stage = "parsed" =>
        /\ codec.dec.ok \in BOOLEAN
        /\ codec.dec.ok =>
              /\ Len(codec.dec.name) > 0
              /\ codec.dec.name[Len(codec.dec.name)] = 46
              /\ codec.dec.type \in {A, AAAA}
        /\ ~codec.dec.ok => codec.dec = NoQuestion
        /\ Malformed(codec.out) => ~codec.dec.ok

\* A label that runs past the end of the buffer was refused
C13_Witness ==
    /\ codec.stage = "parsed"
    /\ Len(codec.out) = 14
    /\ codec.out[13] = 3
    /\ ~codec.dec.ok

\* C14: a purge leaves the table null and lastFetchTime 0 whatever the cache
\* entry was, and a purge of an entry that a purge has just cleared changes
\* nothing.
C14_PurgeClears ==
    last.step = "purge" =>
        /\ localDNSCache = null
        /\ lastFetchTime = 0
        /\ last.resp.kind = "purged"
        /\ (last.preCache = null /\ last.preTime = 0) =>
              (localDNSCache = last.preCache /\ lastFetchTime = last.preTime)

\* A purge of an entry that held a table and a timestamp
C14_Witness ==
    /\ last.step = "purge"
    /\ last.preCache # null
    /\ last.preTime > 0
    /\ localDNSCache = null

\* C15: after a call has taken the refresh branch at time t, a call at a time
\* no later than t + CACHE_TTL_MS / 2, with no purge between the two, starts
\* neither a background fetch nor a synchronous fetch and returns the cached
\* table.
C15_RefreshSlotHeld ==
    (IsCall /\ last.obs.slot # 0 /\ now - last.obs.slot <= CACHE_TTL_MS \div 2) =>
        /\ last.obs.did = "cache"
        /\ last.step = "served"
        /\ last.ret = last.preCache

\* A call within half a window of a refresh, after lastFetchTime was set back
C15_Witness ==
    /\ IsCall
    /\ last.obs.slot # 0
    /\ now - last.obs.slot <= CACHE_TTL_MS \div 2
    /\ last.preTime < last.obs.slot
    /\ last.obs.did = "refresh"

\* C16: the cached table is always null or the whole payload of one fetch; a
\* background refresh that succeeds replaces the table by its payload, and one
\* that fails changes neither the table nor lastFetchTime and returns nothing
\* to any caller.
C16_TableWhole ==
    /\ localDNSCache \in {null} \cup (1..Len(Tables))
    /\ last.step = "bgok" => localDNSCache = last.ret
    /\ last.step \in {"syncok", "bgok"} => last.ret \in 1..Len(Tables)
    /\ last.step = "bgfail" =>
          /\ localDNSCache = last.preCache
          /\ lastFetchTime = last.preTime
          /\ last.resp.kind = "none"
          /\ last.ret = null

\* A background refresh replaced the cached table by another payload
C16_Witness ==
    /\ last.step = "bgok"
    /\ last.preCache # null
    /\ last.preCache # last.ret
    /\ localDNSCache = last.ret

\* The request is a purge, a JSON GET, or a binary POST whose question decodes
TouchesCache(r) ==
    \/ r.pathname = "/purge-cache"
    \/ /\ r.pathname # "/.well-known/dns-query"
       /\ \/ r.method = "GET" /\ r.accept = jstontype
          \/ r.method = "POST" /\ r.ctype = contype /\ parseDNSQuestion(r.body).ok

\* C17: handling a request that is no purge, no JSON GET and no binary POST
\* with a decodable question (the redirect, the 404s, the binary GET, the
\* binary POST whose question does not decode) leaves the table and
\* lastFetchTime as they were and starts no fetch of the override source.
C17_OtherPathsLeaveCache ==
    [][(last'.step \in {"purge", "direct", "served", "await"}
            /\ ~TouchesCache(last'.req))
        => /\ last'.step = "direct"
           /\ UNCHANGED <<localDNSCache, lastFetchTime, bg, inv>>]_vars

\* A binary POST whose question does not decode was forwarded while a table
\* was cached
C17_Witness ==
    /\ last.step = "direct"
    /\ last.req.method = "POST"
    /\ last.req.ctype = contype
    /\ Len(last.req.body) > 12
    /\ ~parseDNSQuestion(last.req.body).ok
    /\ last.resp.kind = "forward"
    /\ localDNSCache # null
    /\ localDNSCache = last.preCache
    /\ lastFetchTime = last.preTime

\* C18: fetchLocalDNS returns the cached table without a synchronous fetch only
\* when the fetch that brought the table's content started no more than
\* CACHE_TTL_MS before the call.
C18_StalenessBound ==
    last.step = "served" => now - last.obs.origin <= CACHE_TTL_MS

\* A table is served from the cache more than CACHE_TTL_MS after the fetch
\* that brought it had started, lastFetchTime having been stamped since
C18_Witness ==
    /\ last.step = "served"
    /\ last.obs.did = "cache"
    /\ now - last.obs.origin > CACHE_TTL_MS
    /\ last.preTime > last.obs.origin

\* C19: a fetch that was started before a purge does not write the cache entry
\* after it (no fetch completion writes the table while no call has been made
\* since the purge), and a cached table always comes with a lastFetchTime
\* other than 0.
C19_PurgeNotUndone ==
    /\ last.step \in {"syncok", "bgok"} => ~purged
    /\ localDNSCache # null => lastFetchTime # 0

\* A background refresh started before a purge wrote the table after it
C19_Witness ==
    /\ last.step = "bgok"
    /\ purged
    /\ last.preCache = null
    /\ localDNSCache # null
    /\ lastFetchTime = 0

\* C20: a fetch completion never replaces the cached table by the result of a
\* fetch that started before the fetch that brought the cached table, and no
\* step other than a purge lowers lastFetchTime.
C20_NoRegression ==
    /\ (last.step \in {"syncok", "bgok"} /\ last.preCache # null) =>
          last.started >= last.preOrigin
    /\ last.step \in {"direct", "served", "await", "syncok", "syncfail",
                       "bgok", "bgfail"} =>
          lastFetchTime >= last.preTime

\* The result of an earlier fetch replaced the table that a later fetch had
\* brought, and lastFetchTime went back
C20_Witness ==
    /\ last.step = "syncok"
    /\ last.preCache # null
    /\ last.started < last.preOrigin
    /\ lastFetchTime < last.preTime
    /\ localDNSCache = last.ret

====
